---- MODULE Spec2Model ----
(***************************************************************************)
(* Program memory of the 8-bit CPU emulator (program_memory.c): the        *)
(* assembler that packs (op_code, op1, op2) into a 24-bit instruction held *)
(* in a 32-bit word, the array data[] with its init-once writer, the       *)
(* reader and the subroutine-name lookup.                                  *)
(***************************************************************************)
EXTENDS Integers, Sequences, FiniteSets

VARIABLES
  data,                        \* static uint32_t data[PROGRAM_MEMORY_ADDRESS_WIDTH]
  program_memory_initialized,  \* static bool of program_memory_write
  op,                          \* the last call: "none", "write", "read", "name"
  address,                     \* the uint8_t argument of the last call (0 if it has none)
  result,                      \* the word the last call returned (0 if it returns none)
  name,                        \* the string the last call returned ("" if it returns none)
  write_calls,                 \* number of program_memory_write calls so far
  stores,                      \* number of assignments to data[] performed so far
  data_after_first,            \* data[] as the first program_memory_write call left it
  t1, t2,                      \* two (op_code, op1, op2) argument triples of assemble
  w1, w2                       \* the words assemble returned for them (-1: not called)

vars == <<data, program_memory_initialized, op, address, result, name,
          write_calls, stores, data_after_first, t1, t2, w1, w2>>

storeVars == <<data, program_memory_initialized, op, address, result, name,
               write_calls, stores, data_after_first>>

asmVars == <<t1, t2, w1, w2>>

-----------------------------------------------------------------------------
(* Bounds of the model. *)

MaxCalls == 3     \* program_memory_write calls explored
MaxBeyond == 3    \* addresses past the capacity on which the reader's else branch is evaluated
MaxEdge == 3      \* bytes 0..MaxEdge and 255-MaxEdge..255 tried as assemble arguments
MaxPair == 1      \* bytes 0..MaxPair and 255-MaxPair..255 tried in pairs of triples

-----------------------------------------------------------------------------
(* Constants of program_memory.h and the headers it includes. *)

PROGRAM_MEMORY_ADDRESS_WIDTH == 256
RESET_vect == 0

NOP == 0
LDI == 1
OUT == 3
JMP == 22
CALL == 29
RET == 30
LD == 33
ST == 34

DDRB == 0
PORTB == 1
PORTB0 == 0
PORTB1 == 1
PORTB2 == 2

R16 == 16
R17 == 17
R18 == 18
R19 == 19
R24 == 24
XL == 26
XH == 27
XREG == 28

low(x) == x % 256
high(x) == (x \div 256) % 256

(* Macro definitions of program_memory.c. *)
main == 8
main_loop == 9
led_blink == 13
setup == 18
init_ports == 21
init_registers == 24
end == 30

LED1 == PORTB0
LED2 == PORTB1
LED3 == PORTB2

-----------------------------------------------------------------------------
(* C integer operators on non-negative ints. *)

Byte == 0..255

Shl(a, n) == a * (2 ^ n)

RECURSIVE BitOr(_, _)
BitOr(a, b) ==
  IF a = 0 THEN b
  ELSE IF b = 0 THEN a
  ELSE (IF a % 2 = 1 \/ b % 2 = 1 THEN 1 ELSE 0) + 2 * BitOr(a \div 2, b \div 2)

(* assemble with operand 1 shifted by 4 instead of 8. *)
assemble_short_shift(op_code, op1, op2) ==
  BitOr(BitOr(Shl(op_code, 16), Shl(op1, 4)), op2)

(* assemble with the OP code shifted by 8, onto operand 1. *)
assemble_same_shift(op_code, op1, op2) ==
  BitOr(BitOr(Shl(op_code, 8), Shl(op1, 8)), op2)

(* assemble: (op_code << 16) | (op1 << 8) | op2.  The uint8_t arguments are  *)
(* promoted to int; the largest value, 255 << 16 | 255 << 8 | 255, is below *)
(* 2^24, so neither the shifts nor the conversion to uint32_t wrap.         *)
assemble(op_code, op1, op2) ==
  BitOr(BitOr(Shl(op_code, 16), Shl(op1, 8)), op2)

-----------------------------------------------------------------------------
(* The program memory. *)

Addresses == 0..(PROGRAM_MEMORY_ADDRESS_WIDTH - 1)

(* The program with the reset vector jumping to main_loop, not main. *)
program_wrong_reset(d) ==
  [d EXCEPT
    ![0] = assemble(JMP, main_loop, 0),
    ![1] = assemble(NOP, 0, 0),
    ![2] = assemble(NOP, 0, 0),
    ![3] = assemble(NOP, 0, 0),
    ![4] = assemble(NOP, 0, 0),
    ![5] = assemble(NOP, 0, 0),
    ![6] = assemble(NOP, 0, 0),
    ![7] = assemble(NOP, 0, 0),
    ![8] = assemble(CALL, setup, 0),
    ![9] = assemble(CALL, led_blink, 0),
    ![10] = assemble(ST, XREG, R18),
    ![11] = assemble(LD, R24, XREG),
    ![12] = assemble(JMP, main_loop, 0),
    ![13] = assemble(OUT, PORTB, R16),
    ![14] = assemble(OUT, PORTB, R17),
    ![15] = assemble(OUT, PORTB, R18),
    ![16] = assemble(OUT, PORTB, R19),
    ![17] = assemble(RET, 0, 0),
    ![18] = assemble(CALL, init_ports, 0),
    ![19] = assemble(CALL, init_registers, 0),
    ![20] = assemble(RET, 0, 0),
    ![21] = assemble(LDI, R16, BitOr(BitOr(Shl(1, LED1), Shl(1, LED2)), Shl(1, LED3))),
    ![22] = assemble(OUT, DDRB, R16),
    ![23] = assemble(RET, 0, 0),
    ![24] = assemble(LDI, R16, Shl(1, LED1)),
    ![25] = assemble(LDI, R17, Shl(1, LED2)),
    ![26] = assemble(LDI, R18, Shl(1, LED3)),
    ![27] = assemble(LDI, XL, low(1000)),
    ![28] = assemble(LDI, XH, high(1000)),
    ![29] = assemble(RET, 0, 0)]

(* The program with one more slot assigned, data[30], past the end address. *)
program_extra_slot(d) ==
  [program_wrong_reset(d) EXCEPT
    ![0] = assemble(JMP, main, 0),
    ![30] = assemble(RET, 0, 0)]

(* The program with the loop jumping into main_loop's second slot and *)
(* setup falling through without its RET.                             *)
program_bad_flow(d) ==
  [program_wrong_reset(d) EXCEPT
    ![0] = assemble(JMP, main, 0),
    ![12] = assemble(JMP, main_loop + 1, 0),
    ![20] = assemble(NOP, 0, 0)]

(* The 30 assignments data[0] .. data[29] of program_memory_write, applied *)
(* to the array d.                                                         *)
program(d) ==
  [d EXCEPT
    ![0] = assemble(JMP, main, 0),
    ![1] = assemble(NOP, 0, 0),
    ![2] = assemble(NOP, 0, 0),
    ![3] = assemble(NOP, 0, 0),
    ![4] = assemble(NOP, 0, 0),
    ![5] = assemble(NOP, 0, 0),
    ![6] = assemble(NOP, 0, 0),
    ![7] = assemble(NOP, 0, 0),
    ![8] = assemble(CALL, setup, 0),
    ![9] = assemble(CALL, led_blink, 0),
    ![10] = assemble(ST, XREG, R18),
    ![11] = assemble(LD, R24, XREG),
    ![12] = assemble(JMP, main_loop, 0),
    ![13] = assemble(OUT, PORTB, R16),
    ![14] = assemble(OUT, PORTB, R17),
    ![15] = assemble(OUT, PORTB, R18),
    ![16] = assemble(OUT, PORTB, R19),
    ![17] = assemble(RET, 0, 0),
    ![18] = assemble(CALL, init_ports, 0),
    ![19] = assemble(CALL, init_registers, 0),
    ![20] = assemble(RET, 0, 0),
    ![21] = assemble(LDI, R16, BitOr(BitOr(Shl(1, LED1), Shl(1, LED2)), Shl(1, LED3))),
    ![22] = assemble(OUT, DDRB, R16),
    ![23] = assemble(RET, 0, 0),
    ![24] = assemble(LDI, R16, Shl(1, LED1)),
    ![25] = assemble(LDI, R17, Shl(1, LED2)),
    ![26] = assemble(LDI, R18, Shl(1, LED3)),
    ![27] = assemble(LDI, XL, low(1000)),
    ![28] = assemble(LDI, XH, high(1000)),
    ![29] = assemble(RET, 0, 0)]

(* Number of assignments to data[] one populating call performs. *)
program_stores == 30

(* program_memory_write without the early return on the flag. *)
program_memory_write_unguarded ==
  /\ write_calls < MaxCalls
  /\ data' = program(data)
  /\ stores' = stores + program_stores
  /\ program_memory_initialized' = TRUE
  /\ write_calls' = write_calls + 1
  /\ data_after_first' = IF write_calls = 0 THEN data' ELSE data_after_first
  /\ op' = "write"
  /\ address' = 0 /\ result' = 0 /\ name' = ""
  /\ UNCHANGED asmVars

(* program_memory_write that never sets the flag. *)
program_memory_write_flagless ==
  /\ write_calls < MaxCalls
  /\ IF program_memory_initialized
       THEN UNCHANGED <<data, stores>>
       ELSE /\ data' = program(data)
            /\ stores' = stores + program_stores
  /\ UNCHANGED program_memory_initialized
  /\ write_calls' = write_calls + 1
  /\ data_after_first' = IF write_calls = 0 THEN data' ELSE data_after_first
  /\ op' = "write"
  /\ address' = 0 /\ result' = 0 /\ name' = ""
  /\ UNCHANGED asmVars

(* program_memory_write: returns at once when the flag is set; otherwise *)
(* assigns the program and sets the flag.                                *)
program_memory_write ==
  /\ write_calls < MaxCalls
  /\ IF program_memory_initialized
       THEN UNCHANGED <<data, program_memory_initialized, stores>>
       ELSE /\ data' = program(data)
            /\ stores' = stores + program_stores
            /\ program_memory_initialized' = TRUE
  /\ write_calls' = write_calls + 1
  /\ data_after_first' = IF write_calls = 0 THEN data' ELSE data_after_first
  /\ op' = "write"
  /\ address' = 0 /\ result' = 0 /\ name' = ""
  /\ UNCHANGED asmVars

(* program_memory_read that wraps an address past the capacity around. *)
program_memory_read_wrapping(a) ==
  IF a < PROGRAM_MEMORY_ADDRESS_WIDTH THEN data[a]
  ELSE data[a % PROGRAM_MEMORY_ADDRESS_WIDTH]

(* program_memory_read: data[address] below the capacity, else 0x00. *)
program_memory_read(a) ==
  IF a < PROGRAM_MEMORY_ADDRESS_WIDTH THEN data[a] ELSE 0

Read ==
  \E a \in Byte :
    /\ op' = "read"
    /\ address' = a
    /\ result' = program_memory_read(a)
    /\ name' = ""
    /\ UNCHANGED <<data, program_memory_initialized, write_calls, stores,
                   data_after_first>>
    /\ UNCHANGED asmVars

(* program_memory_subroutine_name with a strict lower bound for main. *)
program_memory_subroutine_name_strict(a) ==
  IF a >= RESET_vect /\ a < main THEN "RESET_vect"
  ELSE IF a > main /\ a < main_loop THEN "main"
  ELSE IF a >= main_loop /\ a < led_blink THEN "main_loop"
  ELSE IF a >= led_blink /\ a < setup THEN "led_blink"
  ELSE IF a >= setup /\ a < init_ports THEN "setup"
  ELSE IF a >= init_ports /\ a < init_registers THEN "init_ports"
  ELSE IF a >= init_registers /\ a < end THEN "init_registers"
  ELSE "Unknown"

(* program_memory_subroutine_name without the branch for init_ports. *)
program_memory_subroutine_name_no_ports(a) ==
  IF a >= RESET_vect /\ a < main THEN "RESET_vect"
  ELSE IF a >= main /\ a < main_loop THEN "main"
  ELSE IF a >= main_loop /\ a < led_blink THEN "main_loop"
  ELSE IF a >= led_blink /\ a < setup THEN "led_blink"
  ELSE IF a >= setup /\ a < init_ports THEN "setup"
  ELSE IF a >= init_registers /\ a < end THEN "init_registers"
  ELSE "Unknown"

(* program_memory_subroutine_name: the if / else-if chain. *)
program_memory_subroutine_name(a) ==
  IF a >= RESET_vect /\ a < main THEN "RESET_vect"
  ELSE IF a >= main /\ a < main_loop THEN "main"
  ELSE IF a >= main_loop /\ a < led_blink THEN "main_loop"
  ELSE IF a >= led_blink /\ a < setup THEN "led_blink"
  ELSE IF a >= setup /\ a < init_ports THEN "setup"
  ELSE IF a >= init_ports /\ a < init_registers THEN "init_ports"
  ELSE IF a >= init_registers /\ a < end THEN "init_registers"
  ELSE "Unknown"

Name ==
  \E a \in Byte :
    /\ op' = "name"
    /\ address' = a
    /\ name' = program_memory_subroutine_name(a)
    /\ result' = 0
    /\ UNCHANGED <<data, program_memory_initialized, write_calls, stores,
                   data_after_first>>
    /\ UNCHANGED asmVars

(* The ranges the branches of program_memory_subroutine_name test, in order. *)
Ranges ==
  << [name |-> "RESET_vect", lo |-> RESET_vect, hi |-> main],
     [name |-> "main", lo |-> main, hi |-> main_loop],
     [name |-> "main_loop", lo |-> main_loop, hi |-> led_blink],
     [name |-> "led_blink", lo |-> led_blink, hi |-> setup],
     [name |-> "setup", lo |-> setup, hi |-> init_ports],
     [name |-> "init_ports", lo |-> init_ports, hi |-> init_registers],
     [name |-> "init_registers", lo |-> init_registers, hi |-> end] >>

(* State at program start: data[] is a zero-initialised static array. *)
InitStore ==
  /\ data = [a \in Addresses |-> 0]
  /\ program_memory_initialized = FALSE
  /\ op = "none"
  /\ address = 0
  /\ result = 0
  /\ name = ""
  /\ write_calls = 0
  /\ stores = 0
  /\ data_after_first = [a \in Addresses |-> 0]

NoTriple == <<0, 0, 0>>

Init ==
  /\ InitStore
  /\ t1 = NoTriple /\ t2 = NoTriple /\ w1 = -1 /\ w2 = -1

Next == program_memory_write \/ Read \/ Name

Spec == Init /\ [][Next]_vars

-----------------------------------------------------------------------------
(* The assembler on its own: argument triples drawn from byte samples. *)

EdgeBytes == (0..MaxEdge) \cup ((255 - MaxEdge)..255) \cup {2 ^ k : k \in 0..7}
PairBytes == (0..MaxPair) \cup ((255 - MaxPair)..255)

Assemble1 ==
  /\ w1 = -1
  /\ w1' = assemble(t1[1], t1[2], t1[3])
  /\ UNCHANGED <<t1, t2, w2>>
  /\ UNCHANGED storeVars

Assemble2 ==
  /\ w2 = -1
  /\ w2' = assemble(t2[1], t2[2], t2[3])
  /\ UNCHANGED <<t1, t2, w1>>
  /\ UNCHANGED storeVars

InitAsm ==
  /\ InitStore
  /\ t1 \in EdgeBytes \X EdgeBytes \X EdgeBytes
  /\ t2 = NoTriple
  /\ w1 = -1 /\ w2 = -1

NextAsm == Assemble1

SpecAsm == InitAsm /\ [][NextAsm]_vars

InitPair ==
  /\ InitStore
  /\ t1 \in PairBytes \X PairBytes \X PairBytes
  /\ t2 \in PairBytes \X PairBytes \X PairBytes
  /\ w1 = -1 /\ w2 = -1

NextPair == Assemble1 \/ Assemble2

SpecPair == InitPair /\ [][NextPair]_vars

-----------------------------------------------------------------------------
(* Fields of an instruction word, and the range table read as a partition. *)

OpCodeOf(w) == (w \div 65536) % 256
Operand1Of(w) == (w \div 256) % 256
Operand2Of(w) == w % 256
AboveBit23(w) == w \div 16777216

Pack(o, a, b) == o * 65536 + a * 256 + b

InRange(i, a) == Ranges[i].lo <= a /\ a < Ranges[i].hi
RangesWith(a) == {i \in 1..Len(Ranges) : InRange(i, a)}
RangeStarts == {Ranges[i].lo : i \in 1..Len(Ranges)}

(* The program listing with its addresses written out. *)
Listing ==
  << <<JMP, 8, 0>>, <<NOP, 0, 0>>, <<NOP, 0, 0>>, <<NOP, 0, 0>>,
     <<NOP, 0, 0>>, <<NOP, 0, 0>>, <<NOP, 0, 0>>, <<NOP, 0, 0>>,
     <<CALL, 18, 0>>,
     <<CALL, 13, 0>>, <<ST, XREG, R18>>, <<LD, R24, XREG>>, <<JMP, 9, 0>>,
     <<OUT, PORTB, R16>>, <<OUT, PORTB, R17>>, <<OUT, PORTB, R18>>,
     <<OUT, PORTB, R19>>, <<RET, 0, 0>>,
     <<CALL, 21, 0>>, <<CALL, 24, 0>>, <<RET, 0, 0>>,
     <<LDI, R16, 7>>, <<OUT, DDRB, R16>>, <<RET, 0, 0>>,
     <<LDI, R16, 1>>, <<LDI, R17, 2>>, <<LDI, R18, 4>>,
     <<LDI, XL, 232>>, <<LDI, XH, 3>>, <<RET, 0, 0>> >>

ReferenceWord(a) ==
  IF a < Len(Listing)
    THEN Pack(Listing[a + 1][1], Listing[a + 1][2], Listing[a + 1][3])
    ELSE Pack(NOP, 0, 0)

-----------------------------------------------------------------------------
(* C1: for byte arguments, assemble returns op_code*65536 + op1*256 + op2: *)
(* bits 23-16 hold op_code, bits 15-8 op1, bits 7-0 op2, and the bits      *)
(* above bit 23 are zero.                                                  *)
C1_AssembleLayout ==
  w1 # -1 =>
    /\ w1 = Pack(t1[1], t1[2], t1[3])
    /\ OpCodeOf(w1) = t1[1]
    /\ Operand1Of(w1) = t1[2]
    /\ Operand2Of(w1) = t1[3]
    /\ AboveBit23(w1) = 0

C1_Witness == w1 # -1 /\ t1 = <<255, 128, 1>>

(* C2: once program_memory_write has been called, program_memory_read(a)  *)
(* is, for every address, the word of the reference listing (a < 30) or   *)
(* the NOP word (a >= 30), a 24-bit value; the word at 0 is a JMP to 8.   *)
C2_ImageAfterWrite ==
  write_calls >= 1 =>
    /\ \A a \in Addresses :
         /\ program_memory_read(a) = ReferenceWord(a)
         /\ program_memory_read(a) \in 0..16777215
    /\ OpCodeOf(program_memory_read(0)) = JMP
    /\ Operand1Of(program_memory_read(0)) = 8
    /\ \A a \in 30..255 : program_memory_read(a) = assemble(NOP, 0, 0)
    /\ op = "read" => result = ReferenceWord(address)

C2_Witness ==
  write_calls >= 1 /\ op = "read" /\ address = 0 /\ OpCodeOf(result) = JMP

C4_WriteIdempotent ==
  write_calls >= 1 =>
    /\ \A a \in Addresses : program_memory_read(a) = data_after_first[a]
    /\ stores = program_stores

C4_Witness ==
  write_calls >= 2 /\ program_memory_initialized /\ data = data_after_first

(* C5: program_memory_subroutine_name(a) is the name of the first range,  *)
(* in table order, that contains a, and "Unknown" exactly when no range   *)
(* contains a, which is exactly when a >= 30; 8 is in main, 13 in         *)
(* led_blink, 255 in none.                                                *)
C5_SubroutineName ==
  /\ program_memory_subroutine_name(8) = "main"
  /\ program_memory_subroutine_name(13) = "led_blink"
  /\ program_memory_subroutine_name(255) = "Unknown"
  /\ op = "name" =>
       /\ (name = "Unknown") <=> (address >= 30)
       /\ (name = "Unknown") <=> (RangesWith(address) = {})
       /\ \A i \in RangesWith(address) :
            (\A j \in RangesWith(address) : i <= j) => name = Ranges[i].name

C5_Witness ==
  op = "name" /\ address = 13 /\ name = "led_blink" /\ ~program_memory_initialized

(* C6: the seven ranges tile [0, 30): ascending, each ending where the    *)
(* next starts, every address below 30 in exactly one of them, and        *)
(* program_memory_subroutine_name names that range, never "Unknown".      *)
C6_RangesTile ==
  /\ Len(Ranges) = 7
  /\ Ranges[1].lo = 0
  /\ Ranges[Len(Ranges)].hi = 30
  /\ \A i \in 1..Len(Ranges) : Ranges[i].lo < Ranges[i].hi
  /\ \A i \in 1..(Len(Ranges) - 1) : Ranges[i].hi = Ranges[i + 1].lo
  /\ \A a \in 0..29 : Cardinality(RangesWith(a)) = 1
  /\ (op = "name" /\ address < 30) =>
       /\ name # "Unknown"
       /\ \E i \in RangesWith(address) : name = Ranges[i].name

C6_Witness ==
  op = "name" /\ address = 23 /\ name = "init_ports"

(* C7: assemble maps distinct byte triples to distinct words. *)
C7_AssembleInjective ==
  (w1 # -1 /\ w2 # -1 /\ t1 # t2) => w1 # w2

C7_Witness ==
  w1 # -1 /\ w2 # -1 /\ t1 = <<0, 1, 0>> /\ t2 = <<1, 0, 0>>

(* C8: the flag is false before the first program_memory_write call and   *)
(* true after it; it changes only from false to true, in the first write  *)
(* call, together with the assignment of the program; read and name calls *)
(* change neither the flag nor data[]; once the flag is true nothing      *)
(* assigns a slot of data[].                                              *)
C8_Step ==
  /\ (program_memory_initialized' # program_memory_initialized) =>
       /\ ~program_memory_initialized
       /\ program_memory_initialized'
       /\ op' = "write"
       /\ write_calls = 0
       /\ data' = program(data)
       /\ stores' = stores + program_stores
  /\ program_memory_initialized =>
       (program_memory_initialized' /\ data' = data /\ stores' = stores)
  /\ op' \in {"read", "name"} =>
       /\ data' = data
       /\ stores' = stores
       /\ program_memory_initialized' = program_memory_initialized

C8_TwoStates ==
  /\ [](program_memory_initialized <=> write_calls >= 1)
  /\ [][C8_Step]_vars

C8_Witness ==
  program_memory_initialized /\ write_calls >= 2 /\ op = "read" /\ address = 8

(* C9: before the first program_memory_write call every address reads as  *)
(* 0x00, and slots 30..255 hold 0 in every state.                         *)
C9_ZeroBeforeWrite ==
  /\ write_calls = 0 =>
       /\ \A a \in Addresses : program_memory_read(a) = 0
       /\ op = "read" => result = 0
  /\ \A a \in 30..255 : data[a] = 0

C9_Witness ==
  write_calls = 0 /\ op = "read" /\ address = 29 /\ result = 0

(* C10: after program_memory_write, operand 1 of every JMP and CALL in    *)
(* slots 0..29 is the start of a range and below 30; the CALL targets are *)
(* setup, led_blink, init_ports and init_registers, and the last slot of  *)
(* each of these ranges holds RET.                                        *)
C10_WellFormedFlow ==
  write_calls >= 1 =>
    /\ \A a \in 0..29 :
         OpCodeOf(data[a]) \in {JMP, CALL} =>
           /\ Operand1Of(data[a]) \in RangeStarts
           /\ Operand1Of(data[a]) \in 0..29
    /\ {Operand1Of(data[a]) : a \in {b \in 0..29 : OpCodeOf(data[b]) = CALL}}
         = {setup, led_blink, init_ports, init_registers}
    /\ \A a \in 0..29 : \A i \in 1..Len(Ranges) :
         (OpCodeOf(data[a]) = CALL /\ Operand1Of(data[a]) = Ranges[i].lo) =>
           OpCodeOf(data[Ranges[i].hi - 1]) = RET

C10_Witness ==
  /\ write_calls >= 1 /\ op = "read" /\ address = 19
  /\ OpCodeOf(result) = CALL /\ Operand1Of(result) = init_registers
  /\ OpCodeOf(data[end - 1]) = RET

====
